---- MODULE Spec2Model ----
(***************************************************************************)
(* InfluxDBWrapper (src/influxdb_wrapper.py): the expiry-calendar bracket  *)
(* resolver, the constant-tenor interpolation built on it, the derived     *)
(* metrics and the query methods with their connections; and the loader    *)
(* (src/deribit_loader.py): its schedule and fetch_option_data.            *)
(*                                                                         *)
(* Time.  A timestamp is an integer number of intraday slots; a calendar   *)
(* date d is the day number d, its midnight is the timestamp               *)
(* d * SlotsPerDay.  Expiries are dates.  A tenor is a number of days.     *)
(*                                                                         *)
(* Python sequences are 0-based: day_expiries[k] is At(day_expiries, k).   *)
(***************************************************************************)
EXTENDS Integers, Sequences, FiniteSets, TLC

\* ---------------------------------------------------------------- bounds
SlotsPerDay == 2
MaxDay == 4
MaxCalLen == 3
MaxTenor == 2
MaxRangeDays == 2
MaxVol == 2
MaxObs == 2
MetricWindow == 1
MaxCallers == 2
MaxCalls == 2
MaxExpiries == 2
MaxDropped == 2
MaxDup == 1
MaxJobSeconds == 2
MaxRequests == 7
MaxRetryAfter == 3

VARIABLES
    call,           \* the public method called: "tenor", "rr" or "bf"
    normalize,      \* argument normalize_by_ATM of the risk reversal
    range_start,    \* argument: first timestamp of the query window
    range_end,      \* argument: end timestamp of the query window (exclusive)
    tenor,          \* argument: the tenor, in days
    deltas,         \* the delta labels asked of the tenor interpolation
    listed,         \* the expiry dates the exchange lists (the calendar's source)
    pc,             \* position in the call
    err,            \* the exception that ended the call, or "none"
    current_day,    \* resolver local (line 208)
    day_expiries,   \* resolver local (line 210)
    current_tenor,  \* resolver local (line 211): the target date
    expiry1,        \* resolver local
    expiry2,        \* resolver local
    idx,            \* resolver local (0-based)
    steps,          \* iterations the inner walk has made for current_day
    result,         \* resolver local (line 207): rows <<date, expiry1, expiry2>>
    nearby_expiries,\* the table the resolver returned (lines 255, 274)
    unique_expiries,\* the expiries asked of the store (line 259)
    obs,            \* timestamps of the rows the store returned (vols.index)
    d_i,            \* position of the loop of line 271 in deltas (1-based)
    todo,           \* timestamps the row loop of line 290 has yet to visit
    row,            \* the row of tenor_vols computed last, or NoRow
    tenor_vols,     \* line 280: the rows [timestamp, delta, value] of this delta
    final_vols,     \* line 270: rows [timestamp, delta, value]
    metric,         \* the table a risk reversal or butterfly call returns
    \* -- the query layer: its callers and the external store
    store,          \* the raw points the store holds for obs_time: a count
                    \* for each <<expiry, delta>>
    budget,         \* the calls the callers have yet to make
    qop,            \* per caller: the query method it is in, or "none"
    qpc,            \* per caller: its position in the method
    client,         \* per caller: the InfluxDBClient its with statement made
    served,         \* per caller: the clients its calls have made, in order
    clients,        \* the InfluxDBClient objects constructed so far
    held,           \* the clients whose connection is open
    issued,         \* per caller: query_api().query calls made by this call
    store_err,      \* per caller: the error the store raised in this call
    pending,        \* per caller: what is leaving the with block
    outcome,        \* per caller: how its last call ended
    vol_surface,    \* per caller: the table its last call returned
    \* -- deribit_loader.py
    timeframe,      \* get_next_run_time: its argument
    tm_hour,        \* time.localtime() when it is called
    tm_min,
    tm_sec,
    next_run,       \* the value it returns
    lpc,            \* position of the main loop (lines 162-169)
    inst,           \* fetch_option_data: its argument
    retries,        \* fetch_option_data: line 53
    requests,       \* HTTP requests it has made
    response,       \* the response to the last request
    slept,          \* seconds it has slept (line 64)
    fetched,        \* the value it returned
    fpc             \* its position

resolverVars == <<current_day, day_expiries, current_tenor, expiry1, expiry2,
                  idx, steps, result>>
argVars == <<call, normalize, range_start, range_end, tenor, deltas, listed>>
tenorVars == <<nearby_expiries, unique_expiries, obs, d_i, todo, row, tenor_vols,
               final_vols>>
callVars == <<argVars, pc, err, resolverVars, tenorVars, metric>>
queryVars == <<store, budget, qop, qpc, client, served, clients, held, issued, store_err,
               pending, outcome, vol_surface>>
scheduleVars == <<timeframe, tm_hour, tm_min, tm_sec, next_run, lpc>>
fetchVars == <<inst, retries, requests, response, slept, fetched, fpc>>
loaderVars == <<scheduleVars, fetchVars>>
vars == <<callVars, queryVars, loaderVars>>

\* ------------------------------------------------------- external helpers
\* datetime.strptime(s, ...).date(): the calendar date of a timestamp.
DateOf(ts) == ts \div SlotsPerDay

\* pd.to_datetime of a date: its midnight.
Midnight(d) == d * SlotsPerDay

\* utils.add_tenor for a day-denominated tenor: calendar addition of n days;
\* applied to a timestamp it keeps the time of day.
add_tenor(d, n) == d + n
add_tenor_ts(ts, n) == ts + n * SlotsPerDay

\* A tenor string such as "30D" or "2W", in days.
TenorDays(n, unit) == IF unit = "W" THEN 7 * n ELSE n

\* utils.build_option_expiries(day): an ascending, non-empty sequence of
\* listed expiry dates.  Any such sequence may come back for a day.
IsAscending(s) == \A i \in 1..(Len(s) - 1) : s[i] <= s[i + 1]
Calendars(dates) ==
    {s \in UNION {[1..n -> dates] : n \in 1..MaxCalLen} : IsAscending(s)}

\* ------------------------------------------------------ Python sequences
At(s, k) == s[k + 1]
InRange(s, k) == k >= 0 /\ k < Len(s)

\* --------------------------------------------------------------- resolver
\* (the loop leaving the last day out)
DayLoopCond_exclusive(day, last) == day < last

\* line 209: while current_day <= range_end
DayLoopCond(day, last) == day <= last

\* (the walk going on past an expiry equal to the target)
WalkCond_inclusive(e2, target) == e2 <= target

\* line 216: while expiry2 < current_tenor
WalkCond(e2, target) == e2 < target

\* (expiry1 lagging one entry behind)
NextPair_lagging(cal, i) == <<At(cal, i - 1), At(cal, i + 1)>>

\* lines 217-218: the pair the walk moves to
NextPair(cal, i) == <<At(cal, i), At(cal, i + 1)>>

\* ------------------------------------------------------------ rationals
\* A value of the float columns is a fraction <<numerator, denominator>> in
\* lowest terms with a positive denominator; a zero denominator stands for
\* NaN, which every operation hands on.
Abs(x) == IF x < 0 THEN -x ELSE x

RECURSIVE Gcd(_, _)
Gcd(a, b) == IF b = 0 THEN a ELSE Gcd(b, a % b)

NaN == <<0, 0>>
IsNaN(a) == a[2] = 0
Frac(n, d) ==
    IF d = 0 THEN NaN
    ELSE LET g == Gcd(Abs(n), Abs(d))
             sgn == IF d < 0 THEN -1 ELSE 1
         IN  <<sgn * (n \div g), sgn * (d \div g)>>
Rat(n) == <<n, 1>>
RatEq(a, b) == ~IsNaN(a) /\ ~IsNaN(b) /\ a[1] * b[2] = b[1] * a[2]
RatLt(a, b) == ~IsNaN(a) /\ ~IsNaN(b) /\ a[1] * b[2] < b[1] * a[2]
RatLe(a, b) == RatLt(a, b) \/ RatEq(a, b)
RatAdd(a, b) == Frac(a[1] * b[2] + b[1] * a[2], a[2] * b[2])
RatNeg(a) == <<-a[1], a[2]>>
RatSub(a, b) == RatAdd(a, RatNeg(b))
RatScale(k, a) == Frac(k * a[1], a[2])
RatDiv(a, b) == IF IsNaN(a) \/ IsNaN(b) THEN NaN ELSE Frac(a[1] * b[2], a[2] * b[1])

\* ---------------------------------------------------------- interpolation
\* The implied vols the store holds.
Vols == 1..MaxVol

\* Series.dt.days: the day component of a timedelta, rounded towards minus
\* infinity (-12 hours has days = -1).
DaysOf(delta) == delta \div SlotsPerDay

\* lines 286-287: abs((expiry - rolling_expiry).dt.days)
DiffToExp(e, rolling) == Abs(DaysOf(Midnight(e) - rolling))

\* (the span between the two expiries taken for the total)
DiffExp_span(diff1, diff2) == Abs(diff2 - diff1)

\* line 288: diff_exp
DiffExp(diff1, diff2) == diff1 + diff2

\* (the complement forgotten)
Weight_complement(diff, total) == Frac(diff, total)

\* lines 291-292: 1 - diff / diff_exp
Weight(diff, total) == Frac(total - diff, total)

\* (each weight applied to the other expiry's value)
InterpValue_swapped(diff1, diff2, total, v1, v2) ==
    RatAdd(RatScale(v2, Weight(diff1, total)), RatScale(v1, Weight(diff2, total)))

\* lines 291-293: interp_vol1 + interp_vol2
InterpValue(diff1, diff2, total, v1, v2) ==
    RatAdd(RatScale(v1, Weight(diff1, total)), RatScale(v2, Weight(diff2, total)))

\* (no forward fill: the first row of the table for every timestamp)
Ffill_first(table, ts) == table[1]

\* line 278: reindex(vols.index, method='ffill'): the row of the table with
\* the latest date that is not after ts.
Ffill(table, ts) ==
    LET cands == {i \in 1..Len(table) : Midnight(table[i][1]) <= ts}
    IN  table[CHOOSE i \in cands : \A j \in cands : j <= i]

\* lines 257-259: the distinct expiries of the table
UniqueExpiries(table) ==
    {table[i][2] : i \in 1..Len(table)} \cup {table[i][3] : i \in 1..Len(table)}

NoRow ==
    [timestamp |-> -1, expiry1 |-> 0, expiry2 |-> 0, rolling_expiry |-> 0,
     diff_to_exp1 |-> 0, diff_to_exp2 |-> 0, diff_exp |-> 0,
     vol1 |-> 0, vol2 |-> 0, value |-> NaN, divided |-> FALSE]

\* lines 282-293 for the row of timestamp ts, the store holding v1 and v2
\* for the two expiries of its bracket
TenorRow(table, ts, t, v1, v2) ==
    LET b == Ffill(table, ts)
        rolling == add_tenor_ts(ts, t)
        diff1 == DiffToExp(b[2], rolling)
        diff2 == DiffToExp(b[3], rolling)
        total == DiffExp(diff1, diff2)
    IN  [timestamp |-> ts, expiry1 |-> b[2], expiry2 |-> b[3],
         rolling_expiry |-> rolling,
         diff_to_exp1 |-> diff1, diff_to_exp2 |-> diff2, diff_exp |-> total,
         vol1 |-> v1, vol2 |-> v2,
         value |-> IF total = 0 THEN NaN
                   ELSE InterpValue(diff1, diff2, total, v1, v2),
         divided |-> TRUE]

\* ------------------------------------------------------- derived metrics
ATM == <<0, "ATM">>
\* f"{d}C", f"{d}P"
CallLabel(d) == <<d, "C">>
PutLabel(d) == <<d, "P">>
\* the delta asked of the derived metrics
Delta == 15

\* history[mask & (history['delta'] == label)]['value']: a series by timestamp
SeriesOf(history, label) ==
    LET rows == {i \in 1..Len(history) : history[i].delta = label}
    IN  [ts \in {history[i].timestamp : i \in rows} |->
            history[CHOOSE i \in rows : history[i].timestamp = ts].value]

\* Index alignment of two series: the timestamps of both; a timestamp that
\* one side lacks yields NaN.
Get(series, ts) == IF ts \in DOMAIN series THEN series[ts] ELSE NaN
SeriesSub(a, b) ==
    [ts \in DOMAIN a \cup DOMAIN b |-> RatSub(Get(a, ts), Get(b, ts))]
SeriesAdd(a, b) ==
    [ts \in DOMAIN a \cup DOMAIN b |-> RatAdd(Get(a, ts), Get(b, ts))]
SeriesDiv(a, b) ==
    [ts \in DOMAIN a \cup DOMAIN b |-> RatDiv(Get(a, ts), Get(b, ts))]
SeriesScale(k, a) == [ts \in DOMAIN a |-> RatScale(k, a[ts])]

\* (call and put added)
RiskReversalOf_sum(history, d, norm) ==
    LET rr == SeriesAdd(SeriesOf(history, CallLabel(d)),
                        SeriesOf(history, PutLabel(d)))
    IN  IF norm THEN SeriesDiv(rr, SeriesOf(history, ATM)) ELSE rr

\* lines 351-353
RiskReversalOf(history, d, norm) ==
    LET rr == SeriesSub(SeriesOf(history, CallLabel(d)),
                        SeriesOf(history, PutLabel(d)))
    IN  IF norm THEN SeriesDiv(rr, SeriesOf(history, ATM)) ELSE rr

\* (the ATM series taken off once)
ButterflyOf_single(history, d) ==
    SeriesSub(SeriesAdd(SeriesOf(history, CallLabel(d)),
                        SeriesOf(history, PutLabel(d))),
              SeriesOf(history, ATM))

\* lines 408-409
ButterflyOf(history, d) ==
    SeriesSub(SeriesAdd(SeriesOf(history, CallLabel(d)),
                        SeriesOf(history, PutLabel(d))),
              SeriesScale(2, SeriesOf(history, ATM)))

\* lines 329-334
RiskReversalDeltas(d, norm) ==
    <<CallLabel(d), PutLabel(d)>> \o (IF norm THEN <<ATM>> ELSE <<>>)

\* lines 387-391
ButterflyDeltas(d) == <<CallLabel(d), PutLabel(d), ATM>>

\* ----------------------------------------------------------------- loader
\* deribit_loader.py lines 28-35
timeframe_minutes ==
    ("5m" :> 5) @@ ("15m" :> 15) @@ ("30m" :> 30) @@ ("1h" :> 60) @@
    ("4h" :> 240) @@ ("1d" :> 1440)

\* seconds since midnight of the wall-clock time h:m:s, and of a whole day
SecondsOfDay(h, m, s) == (h * 60 + m) * 60 + s
DaySeconds == SecondsOfDay(24, 0, 0)

\* deribit_loader.py lines 152-156: get_next_run_time at the local time
\* with tm_min = m and tm_sec = s
NextRunTime(tf, m, s) ==
    LET period == timeframe_minutes[tf]
        run == (period - (m % period)) * 60 - s
    IN  run % (period * 60)

NoSchedule ==
    /\ timeframe = "5m"
    /\ tm_hour = 0
    /\ tm_min = 0
    /\ tm_sec = 0
    /\ next_run = 0
    /\ lpc = "idle"

\* what fetch_option_data has returned: nothing yet, None, or the order
\* book of an instrument
NotReturned == <<"not returned", "none">>
None == <<"None", "none">>
OrderBook(i) == <<"order_book", i>>

NoFetch ==
    /\ inst = "none"
    /\ retries = 0
    /\ requests = 0
    /\ response = "none"
    /\ slept = 0
    /\ fetched = NotReturned
    /\ fpc = "idle"

NoLoader == NoSchedule /\ NoFetch

\* ------------------------------------------------------------ query layer
\* The callers of the wrapper: each makes its calls one after the other, and
\* the calls of different callers interleave.
Callers == 1..MaxCallers

Range(s) == {s[i] : i \in 1..Len(s)}

\* lines 116-117: deltas
SurfaceDeltas ==
    <<"5P", "10P", "15P", "20P", "25P", "30P", "35P", "40P", "45P", "ATM",
      "45C", "40C", "35C", "30C", "25C", "20C", "15C", "10C", "5C">>

\* The same labels in the order of Python's string comparison, which is the
\* order DataFrame.pivot gives its columns.
SortedLabels ==
    <<"10C", "10P", "15C", "15P", "20C", "20P", "25C", "25P", "30C", "30P",
      "35C", "35P", "40C", "40P", "45C", "45P", "5C", "5P", "ATM">>

\* The expiries the store may hold points for, and its points.
SurfaceExpiries == 1..MaxExpiries
SurfacePoints == SurfaceExpiries \X Range(SurfaceDeltas)

RECURSIVE SubsetsUpTo(_, _)
SubsetsUpTo(S, k) ==
    IF k = 0 THEN {{}}
    ELSE LET smaller == SubsetsUpTo(S, k - 1)
         IN  smaller \cup {T \cup {x} : T \in smaller, x \in S}

\* The raw points of a store: every delta bucket of each expiry of one of
\* expirySets, but for up to maxDropped points left out and up to maxDup
\* points held twice, the points touched having their delta in labels.
Stores(expirySets, labels, maxDropped, maxDup) ==
    LET touched == {pt \in SurfacePoints : pt[2] \in labels}
    IN  {[pt \in SurfacePoints |->
             IF pt[1] \notin E \/ pt \in D THEN 0
             ELSE IF pt \in U THEN 2 ELSE 1] :
           E \in expirySets,
           D \in SubsetsUpTo(touched, maxDropped),
           U \in SubsetsUpTo(touched, maxDup)}

\* The errors the store raises for a query.
StoreErrors == {"ApiException", "ReadTimeoutError"}

\* lines 119-121: pivot raises ValueError when an (expiry, delta) pair occurs
\* twice
HasDuplicate(points) == \E pt \in DOMAIN points : points[pt] > 1

RECURSIVE AscendingSeq(_)
AscendingSeq(S) ==
    IF S = {} THEN <<>>
    ELSE LET least == CHOOSE x \in S : \A y \in S : x <= y
         IN  <<least>> \o AscendingSeq(S \ {least})

NoTable == [index |-> <<>>, columns |-> <<>>, cells |-> {}]
EmptyStore == [pt \in SurfacePoints |-> 0]

\* line 119: data.pivot(index='expiry', columns='delta', values='vol'): a row
\* for each expiry and a column for each delta of the points, both sorted; a
\* cell holds a value where the points have the pair
Pivot(points) ==
    LET present == {pt \in DOMAIN points : points[pt] > 0}
    IN  [index |-> AscendingSeq({pt[1] : pt \in present}),
         columns |-> SelectSeq(SortedLabels,
                               LAMBDA d : \E pt \in present : pt[2] = d),
         cells |-> present]

\* (the columns left as pivot sorted them)
SelectColumns_unordered(t, labels) == t

\* line 119: [deltas] on the pivoted frame, every label being a column
SelectColumns(t, labels) ==
    [index |-> t.index, columns |-> labels,
     cells |-> {pt \in t.cells : pt[2] \in Range(labels)}]

\* line 119: [deltas] raises KeyError when a label is not a column
MissingColumn(t, labels) == \E d \in Range(labels) : d \notin Range(t.columns)

\* (the connection kept open when the block is left by an error)
Released_on_success(open, c, leaving) ==
    IF leaving = "returned" THEN open \ {c} ELSE open

\* InfluxDBClient.__exit__: the with statement closes the client however the
\* block is left
Released(open, c, leaving) == open \ {c}

\* No call of the wrapper, of the query layer or of the loader is under way.
NoCall ==
    /\ call = "none"
    /\ normalize = FALSE
    /\ range_start = 0
    /\ range_end = 0
    /\ tenor = 0
    /\ deltas = <<>>
    /\ listed = {}
    /\ pc = "done"
    /\ err = "none"
    /\ current_day = 0
    /\ day_expiries = <<>>
    /\ current_tenor = 0
    /\ expiry1 = 0
    /\ expiry2 = 0
    /\ idx = 0
    /\ steps = 0
    /\ result = <<>>
    /\ nearby_expiries = <<>>
    /\ unique_expiries = {}
    /\ obs = {}
    /\ d_i = 1
    /\ todo = {}
    /\ row = NoRow
    /\ tenor_vols = <<>>
    /\ final_vols = <<>>
    /\ metric = <<>>

NoQuery(stores, calls) ==
    /\ store \in stores
    /\ budget = calls
    /\ qop = [c \in Callers |-> "none"]
    /\ qpc = [c \in Callers |-> "idle"]
    /\ client = [c \in Callers |-> 0]
    /\ served = [c \in Callers |-> <<>>]
    /\ clients = 0
    /\ held = {}
    /\ issued = [c \in Callers |-> 0]
    /\ store_err = [c \in Callers |-> "none"]
    /\ pending = [c \in Callers |-> "none"]
    /\ outcome = [c \in Callers |-> "none"]
    /\ vol_surface = [c \in Callers |-> NoTable]

\* ------------------------------------------------------------------ init
InitCall(calls, lastSlot, maxWindow, tenors, dates) ==
    /\ call \in calls
    /\ listed = dates
    /\ normalize \in (IF call = "rr" THEN BOOLEAN ELSE {FALSE})
    /\ range_start \in 0..(lastSlot - 1)
    /\ range_end \in (range_start + 1)..lastSlot
    /\ range_end - range_start <= maxWindow
    /\ tenor \in tenors
    /\ deltas = CASE call = "rr" -> RiskReversalDeltas(Delta, normalize)
                  [] call = "bf" -> ButterflyDeltas(Delta)
                  [] OTHER -> <<ATM>>
    /\ pc = "day_loop"
    /\ err = "none"
    /\ current_day = DateOf(range_start)
    /\ day_expiries = <<>>
    /\ current_tenor = 0
    /\ expiry1 = 0
    /\ expiry2 = 0
    /\ idx = 0
    /\ steps = 0
    /\ result = <<>>
    /\ nearby_expiries = <<>>
    /\ unique_expiries = {}
    /\ obs = {}
    /\ d_i = 1
    /\ todo = {}
    /\ row = NoRow
    /\ tenor_vols = <<>>
    /\ final_vols = <<>>
    /\ metric = <<>>
    /\ NoQuery({EmptyStore}, 0)
    /\ NoLoader

\* get_historical_vol_for_delta_and_tenor called with one delta, one field and
\* one tenor, over a window of up to MaxRangeDays days
Init ==
    InitCall({"tenor"}, MaxRangeDays * SlotsPerDay - 1, MaxRangeDays * SlotsPerDay,
             0..MaxTenor, 0..MaxDay)

\* ---------------------------------------------------- resolver (actions)
\* lines 209-215 when the calendar has two entries
DayStart ==
    /\ pc = "day_loop"
    /\ DayLoopCond(current_day, DateOf(range_end))
    /\ \E cal \in Calendars(listed) :
        /\ InRange(cal, 1)
        /\ day_expiries' = cal
        /\ expiry1' = At(cal, 0)
        /\ expiry2' = At(cal, 1)
    /\ current_tenor' = add_tenor(current_day, tenor)
    /\ idx' = 1
    /\ steps' = 0
    /\ pc' = "walk"
    /\ UNCHANGED <<queryVars, loaderVars, argVars, err, current_day, result,
                   tenorVars, metric>>

\* lines 209-214 when day_expiries[1] does not exist: IndexError
DayStartFault ==
    /\ pc = "day_loop"
    /\ DayLoopCond(current_day, DateOf(range_end))
    /\ \E cal \in Calendars(listed) :
        /\ ~InRange(cal, 1)
        /\ day_expiries' = cal
    /\ current_tenor' = add_tenor(current_day, tenor)
    /\ pc' = "raised"
    /\ err' = "IndexError"
    /\ UNCHANGED <<queryVars, loaderVars, argVars, current_day, expiry1,
                   expiry2, idx, steps, result, tenorVars, metric>>

\* lines 216-219: one iteration of the walk
WalkStep ==
    /\ pc = "walk"
    /\ WalkCond(expiry2, current_tenor)
    /\ InRange(day_expiries, idx + 1)
    /\ expiry1' = NextPair(day_expiries, idx)[1]
    /\ expiry2' = NextPair(day_expiries, idx)[2]
    /\ idx' = idx + 1
    /\ steps' = steps + 1
    /\ UNCHANGED <<queryVars, loaderVars, argVars, pc, err, current_day,
                   day_expiries, current_tenor, result, tenorVars, metric>>

\* line 218 when day_expiries[idx+1] does not exist: IndexError
WalkFault ==
    /\ pc = "walk"
    /\ WalkCond(expiry2, current_tenor)
    /\ ~InRange(day_expiries, idx + 1)
    /\ pc' = "raised"
    /\ err' = "IndexError"
    /\ UNCHANGED <<queryVars, loaderVars, argVars, resolverVars, tenorVars,
                   metric>>

\* lines 221-223: the walk is over, the day's bracket is appended
Emit ==
    /\ pc = "walk"
    /\ ~WalkCond(expiry2, current_tenor)
    /\ result' = Append(result, <<current_day, expiry1, expiry2>>)
    /\ current_day' = current_day + 1
    /\ pc' = "day_loop"
    /\ UNCHANGED <<queryVars, loaderVars, argVars, err, day_expiries,
                   current_tenor, expiry1, expiry2, idx, steps, tenorVars,
                   metric>>

\* lines 225-227 and 255-259: the day loop is over, the table is returned to
\* get_historical_vol_for_delta_and_tenor, which collects its expiries; the
\* resolver's locals are gone
ReturnBrackets ==
    /\ pc = "day_loop"
    /\ ~DayLoopCond(current_day, DateOf(range_end))
    /\ nearby_expiries' = result
    /\ unique_expiries' = UniqueExpiries(result)
    /\ current_day' = 0
    /\ day_expiries' = <<>>
    /\ current_tenor' = 0
    /\ expiry1' = 0
    /\ expiry2' = 0
    /\ idx' = 0
    /\ steps' = 0
    /\ result' = <<>>
    /\ pc' = "query"
    /\ UNCHANGED <<queryVars, loaderVars, argVars, err, obs, d_i, todo, row,
                   tenor_vols, final_vols, metric>>

\* ------------------------------------------------ tenor interpolation
\* The timestamps a store can hold rows for in the window [start, stop).
Windows(start, stop) ==
    {S \in SUBSET (start..(stop - 1)) : S # {} /\ Cardinality(S) <= MaxObs}

\* lines 261-268 (146-159): the store answers with rows in the window
Query ==
    /\ pc = "query"
    /\ obs' \in Windows(range_start, range_end)
    /\ d_i' = 1
    /\ pc' = "delta_loop"
    /\ UNCHANGED <<queryVars, loaderVars, argVars, err, resolverVars,
                   nearby_expiries, unique_expiries, todo, row, tenor_vols,
                   final_vols, metric>>

\* line 157: the store rejects the query; the error leaves the call
QueryFails ==
    /\ pc = "query"
    /\ pc' = "raised"
    /\ err' = "QueryFailure"
    /\ UNCHANGED <<queryVars, loaderVars, argVars, resolverVars, tenorVars,
                   metric>>

\* lines 271-288: the body of the loops begins for deltas[d_i]; the table of
\* line 274 is the one of line 255, the calendar of a date being fixed
BeginDelta ==
    /\ pc = "delta_loop"
    /\ d_i <= Len(deltas)
    /\ todo' = obs
    /\ tenor_vols' = <<>>
    /\ pc' = "rows"
    /\ UNCHANGED <<queryVars, loaderVars, argVars, err, resolverVars,
                   nearby_expiries, unique_expiries, obs, d_i, row, final_vols,
                   metric>>

Earliest(S) == CHOOSE t \in S : \A u \in S : t <= u

\* The values vols.loc holds for a bracket: one value per expiry column.
CellPairs(e1, e2) == {p \in Vols \X Vols : e1 = e2 => p[1] = p[2]}

\* lines 290-293: one row of tenor_vols, diff_exp not being 0
InterpRow ==
    /\ pc = "rows"
    /\ todo # {}
    /\ LET ts == Earliest(todo)
           b == Ffill(nearby_expiries, ts)
       IN  \E p \in CellPairs(b[2], b[3]) :
             LET r == TenorRow(nearby_expiries, ts, tenor, p[1], p[2])
             IN  /\ r.diff_exp # 0
                 /\ row' = r
                 /\ tenor_vols' = Append(tenor_vols,
                        [timestamp |-> ts, delta |-> deltas[d_i], value |-> r.value])
                 /\ todo' = todo \ {ts}
    /\ UNCHANGED <<queryVars, loaderVars, argVars, pc, err, resolverVars,
                   nearby_expiries, unique_expiries, obs, d_i, final_vols,
                   metric>>

\* lines 291: diff_exp is 0 and the operands are Python ints: the division
\* raises ZeroDivisionError
InterpRowZeroDivision ==
    /\ pc = "rows"
    /\ todo # {}
    /\ LET ts == Earliest(todo)
           b == Ffill(nearby_expiries, ts)
       IN  \E p \in CellPairs(b[2], b[3]) :
             LET r == TenorRow(nearby_expiries, ts, tenor, p[1], p[2])
             IN  /\ r.diff_exp = 0
                 /\ row' = r
    /\ pc' = "raised"
    /\ err' = "ZeroDivisionError"
    /\ UNCHANGED <<queryVars, loaderVars, argVars, resolverVars,
                   nearby_expiries, unique_expiries, obs, d_i, todo, tenor_vols,
                   final_vols, metric>>

\* lines 291-293: diff_exp is 0 and the operands are numpy scalars: 0/0 is nan
\* and the row's value is nan
InterpRowNaN ==
    /\ pc = "rows"
    /\ todo # {}
    /\ LET ts == Earliest(todo)
           b == Ffill(nearby_expiries, ts)
       IN  \E p \in CellPairs(b[2], b[3]) :
             LET r == TenorRow(nearby_expiries, ts, tenor, p[1], p[2])
             IN  /\ r.diff_exp = 0
                 /\ row' = r
                 /\ tenor_vols' = Append(tenor_vols,
                        [timestamp |-> ts, delta |-> deltas[d_i], value |-> NaN])
                 /\ todo' = todo \ {ts}
    /\ UNCHANGED <<queryVars, loaderVars, argVars, pc, err, resolverVars,
                   nearby_expiries, unique_expiries, obs, d_i, final_vols,
                   metric>>

\* lines 295-298: the rows of this delta are appended to final_vols
EndDelta ==
    /\ pc = "rows"
    /\ todo = {}
    /\ final_vols' = final_vols \o tenor_vols
    /\ d_i' = d_i + 1
    /\ pc' = "delta_loop"
    /\ UNCHANGED <<queryVars, loaderVars, argVars, err, resolverVars,
                   nearby_expiries, unique_expiries, obs, todo, row, tenor_vols,
                   metric>>

\* line 300: the history is returned
ReturnTenor ==
    /\ pc = "delta_loop"
    /\ d_i > Len(deltas)
    /\ pc' = IF call = "tenor" THEN "done" ELSE "history"
    /\ UNCHANGED <<queryVars, loaderVars, argVars, err, resolverVars, tenorVars,
                   metric>>

\* lines 345-360
RiskReversal ==
    /\ pc = "history"
    /\ call = "rr"
    /\ metric' = RiskReversalOf(final_vols, Delta, normalize)
    /\ pc' = "done"
    /\ UNCHANGED <<queryVars, loaderVars, argVars, err, resolverVars,
                   tenorVars>>

\* lines 402-416
Butterfly ==
    /\ pc = "history"
    /\ call = "bf"
    /\ metric' = ButterflyOf(final_vols, Delta)
    /\ pc' = "done"
    /\ UNCHANGED <<queryVars, loaderVars, argVars, err, resolverVars,
                   tenorVars>>

Next ==
    \/ DayStart
    \/ DayStartFault
    \/ WalkStep
    \/ WalkFault
    \/ Emit
    \/ ReturnBrackets
    \/ Query
    \/ QueryFails
    \/ BeginDelta
    \/ InterpRow
    \/ InterpRowZeroDivision
    \/ InterpRowNaN
    \/ EndDelta
    \/ ReturnTenor

Spec == Init /\ [][Next]_vars

\* The derived metrics, called over a window of MetricWindow slots of one day
InitMetric ==
    InitCall({"rr", "bf"}, SlotsPerDay, MetricWindow, 0..MaxTenor, 0..MaxDay)

NextMetric == Next \/ RiskReversal \/ Butterfly

SpecMetric == InitMetric /\ [][NextMetric]_vars

\* The resolver alone, run to its end: the program is sequential and takes
\* the step it is at.
NextResolver ==
    \/ DayStart
    \/ DayStartFault
    \/ WalkStep
    \/ WalkFault
    \/ Emit
    \/ ReturnBrackets

SpecResolver == Init /\ [][NextResolver]_vars /\ WF_vars(NextResolver)

\* The end-to-end scenario: the exchange lists 2024-01-26 and 2024-02-23, the
\* call is anchored on 2024-01-24 (day 0) with tenor "30D".
DayNumber(month, day) == IF month = 1 THEN day - 24 ELSE 31 - 24 + day
E2EAnchor == DayNumber(1, 24)
E2EExpiry1 == DayNumber(1, 26)
E2EExpiry2 == DayNumber(2, 23)
E2ETenor == TenorDays(30, "D")

InitE2E ==
    InitCall({"tenor", "rr", "bf"}, SlotsPerDay, SlotsPerDay, {E2ETenor},
             {E2EExpiry1, E2EExpiry2})

SpecE2E == InitE2E /\ [][NextMetric]_vars

\* ------------------------------------------------- query layer (actions)
\* the entry of a query method
Enter(c, method) ==
    /\ qpc[c] = "idle"
    /\ budget > 0
    /\ budget' = budget - 1
    /\ qop' = [qop EXCEPT ![c] = method]
    /\ qpc' = [qpc EXCEPT ![c] = "called"]
    /\ issued' = [issued EXCEPT ![c] = 0]
    /\ store_err' = [store_err EXCEPT ![c] = "none"]
    /\ pending' = [pending EXCEPT ![c] = "none"]
    /\ outcome' = [outcome EXCEPT ![c] = "none"]
    /\ vol_surface' = [vol_surface EXCEPT ![c] = NoTable]
    /\ UNCHANGED <<callVars, loaderVars, store, client, served, clients, held>>

\* lines 43-57
GetSmileForObsTime == \E c \in Callers : Enter(c, "get_smile_for_obs_time")
\* lines 70-81
GetForwardCurveForObsTime ==
    \E c \in Callers : Enter(c, "get_forward_curve_for_obs_time")
\* lines 93-106
GetVolSurfaceForObsTime ==
    \E c \in Callers : Enter(c, "get_vol_surface_for_obs_time")
\* lines 125-144
GetHistoricalVolForDeltaAndExpiry ==
    \E c \in Callers : Enter(c, "get_historical_vol_for_delta_and_expiry")
\* lines 162-176
GetHistoricalVol == \E c \in Callers : Enter(c, "get_historical_vol")

\* lines 58, 82, 107, 146, 177: with InfluxDBClient(...) as client
EnterWith ==
    \E c \in Callers :
        /\ qpc[c] = "called"
        /\ clients' = clients + 1
        /\ client' = [client EXCEPT ![c] = clients + 1]
        /\ served' = [served EXCEPT ![c] = Append(@, clients + 1)]
        /\ held' = held \cup {clients + 1}
        /\ qpc' = [qpc EXCEPT ![c] = "in_with"]
        /\ UNCHANGED <<callVars, loaderVars, store, budget, qop, issued,
                       store_err, pending, outcome, vol_surface>>

\* lines 66-68, 90-92, 113-115, 157-159, 186-188: client.query_api().query
\* answers, and every method but the vol surface returns the frame it builds
QueryReturns ==
    \E c \in Callers :
        /\ qpc[c] = "in_with"
        /\ issued' = [issued EXCEPT ![c] = @ + 1]
        /\ IF qop[c] = "get_vol_surface_for_obs_time"
           THEN /\ qpc' = [qpc EXCEPT ![c] = "pivot"]
                /\ UNCHANGED pending
           ELSE /\ qpc' = [qpc EXCEPT ![c] = "leaving"]
                /\ pending' = [pending EXCEPT ![c] = "returned"]
        /\ UNCHANGED <<callVars, loaderVars, store, budget, qop, client, served,
                       clients, held, store_err, outcome,
                       vol_surface>>

\* lines 66, 90, 113, 157, 186: client.query_api().query raises
QueryRaises ==
    \E c \in Callers, e \in StoreErrors :
        /\ qpc[c] = "in_with"
        /\ issued' = [issued EXCEPT ![c] = @ + 1]
        /\ store_err' = [store_err EXCEPT ![c] = e]
        /\ pending' = [pending EXCEPT ![c] = e]
        /\ qpc' = [qpc EXCEPT ![c] = "leaving"]
        /\ UNCHANGED <<callVars, loaderVars, store, budget, qop, client, served,
                       clients, held, outcome, vol_surface>>

\* lines 115-121: the points are pivoted and the 19 columns selected
PivotTable ==
    \E c \in Callers :
        /\ qpc[c] = "pivot"
        /\ ~HasDuplicate(store)
        /\ ~MissingColumn(Pivot(store), SurfaceDeltas)
        /\ vol_surface' =
            [vol_surface EXCEPT ![c] = SelectColumns(Pivot(store), SurfaceDeltas)]
        /\ pending' = [pending EXCEPT ![c] = "returned"]
        /\ qpc' = [qpc EXCEPT ![c] = "leaving"]
        /\ UNCHANGED <<callVars, loaderVars, store, budget, qop, client, served,
                       clients, held, issued, store_err, outcome>>

\* line 119: pivot raises ValueError
PivotDuplicate ==
    \E c \in Callers :
        /\ qpc[c] = "pivot"
        /\ HasDuplicate(store)
        /\ pending' = [pending EXCEPT ![c] = "ValueError"]
        /\ qpc' = [qpc EXCEPT ![c] = "leaving"]
        /\ UNCHANGED <<callVars, loaderVars, store, budget, qop, client, served,
                       clients, held, issued, store_err, outcome,
                       vol_surface>>

\* line 119: [deltas] raises KeyError
SelectMissing ==
    \E c \in Callers :
        /\ qpc[c] = "pivot"
        /\ ~HasDuplicate(store)
        /\ MissingColumn(Pivot(store), SurfaceDeltas)
        /\ pending' = [pending EXCEPT ![c] = "KeyError"]
        /\ qpc' = [qpc EXCEPT ![c] = "leaving"]
        /\ UNCHANGED <<callVars, loaderVars, store, budget, qop, client, served,
                       clients, held, issued, store_err, outcome,
                       vol_surface>>

\* the with block is left, by return or by an exception: the client is
\* closed and the caller has the value or the exception
ExitWith ==
    \E c \in Callers :
        /\ qpc[c] = "leaving"
        /\ held' = Released(held, client[c], pending[c])
        /\ outcome' = [outcome EXCEPT ![c] = pending[c]]
        /\ qpc' = [qpc EXCEPT ![c] = "idle"]
        /\ UNCHANGED <<callVars, loaderVars, store, budget, qop, client, served,
                       clients, issued, store_err, pending,
                       vol_surface>>

\* The query methods, called MaxCalls times in all by MaxCallers callers; the
\* store holds one expiry, its ATM point possibly missing or held twice.
InitQuery ==
    /\ NoCall
    /\ NoQuery(Stores({{1}}, {"ATM"}, 1, 1), MaxCalls)
    /\ NoLoader

NextQuery ==
    \/ GetSmileForObsTime
    \/ GetForwardCurveForObsTime
    \/ GetVolSurfaceForObsTime
    \/ GetHistoricalVolForDeltaAndExpiry
    \/ GetHistoricalVol
    \/ EnterWith
    \/ QueryReturns
    \/ QueryRaises
    \/ PivotTable
    \/ PivotDuplicate
    \/ SelectMissing
    \/ ExitWith

SpecQuery == InitQuery /\ [][NextQuery]_vars

\* The buckets at the two ends and in the middle of the enumeration.
EndAndMiddleDeltas == {SurfaceDeltas[1], "ATM", SurfaceDeltas[Len(SurfaceDeltas)]}

\* One call of get_vol_surface_for_obs_time, over the stores of up to
\* MaxExpiries expiries that have every bucket of each expiry but for up to
\* MaxDropped points missing and up to MaxDup held twice, among those of
\* the buckets 5P, ATM and 5C.
InitSurface ==
    /\ NoCall
    /\ NoQuery(Stores(SUBSET SurfaceExpiries, EndAndMiddleDeltas, MaxDropped, MaxDup),
               1)
    /\ NoLoader

NextSurface ==
    \/ GetVolSurfaceForObsTime
    \/ EnterWith
    \/ QueryReturns
    \/ QueryRaises
    \/ PivotTable
    \/ PivotDuplicate
    \/ SelectMissing
    \/ ExitWith

SpecSurface == InitSurface /\ [][NextSurface]_vars

\* ------------------------------------------------------ loader (actions)
\* the clock at t seconds after the local time h:m:s
ClockAfter(h, m, s, t) ==
    LET at == (SecondsOfDay(h, m, s) + t) % DaySeconds
    IN  [hour |-> at \div 3600, min |-> (at \div 60) % 60, sec |-> at % 60]

\* deribit_loader.py lines 164-165: next_run = get_next_run_time(timeframe)
GetNextRunTime ==
    /\ lpc = "loop"
    /\ next_run' = NextRunTime(timeframe, tm_min, tm_sec)
    /\ lpc' = "sleep"
    /\ UNCHANGED <<callVars, queryVars, fetchVars, timeframe, tm_hour, tm_min,
                   tm_sec>>

\* deribit_loader.py line 166: time.sleep(next_run)
Sleep ==
    /\ lpc = "sleep"
    /\ LET now == ClockAfter(tm_hour, tm_min, tm_sec, next_run)
       IN  /\ tm_hour' = now.hour
           /\ tm_min' = now.min
           /\ tm_sec' = now.sec
    /\ lpc' = "job"
    /\ UNCHANGED <<callVars, queryVars, fetchVars, timeframe, next_run>>

\* deribit_loader.py line 169: fetch_and_save_data(coins) takes up to
\* MaxJobSeconds seconds, and the loop starts over
RunJob ==
    /\ lpc = "job"
    /\ \E t \in 1..MaxJobSeconds :
        LET now == ClockAfter(tm_hour, tm_min, tm_sec, t)
        IN  /\ tm_hour' = now.hour
            /\ tm_min' = now.min
            /\ tm_sec' = now.sec
    /\ lpc' = "loop"
    /\ UNCHANGED <<callVars, queryVars, fetchVars, timeframe, next_run>>

\* The main loop, started at any time of the day with any of the timeframes
InitSchedule ==
    /\ NoCall
    /\ NoQuery({EmptyStore}, 0)
    /\ NoFetch
    /\ timeframe \in DOMAIN timeframe_minutes
    /\ tm_hour \in 0..23
    /\ tm_min \in 0..59
    /\ tm_sec \in 0..59
    /\ next_run = 0
    /\ lpc = "loop"

NextSchedule ==
    \/ GetNextRunTime
    \/ Sleep
    \/ RunJob

SpecSchedule == InitSchedule /\ [][NextSchedule]_vars

\* deribit_loader.py line 53: the retry budget of fetch_option_data
Retries == 5
\* the instruments asked for
Instruments == {"BTC-27DEC24-100000-C", "ETH-27DEC24-4000-P"}
\* line 62: int(response.headers.get('retry-after', '2')), the header being
\* absent or holding a number of seconds
RetryAfterHeaders ==
    {<<"absent", 0>>} \cup {<<"present", n>> : n \in 1..MaxRetryAfter}
WaitTime(header) == IF header[1] = "absent" THEN 2 ELSE header[2]

\* lines 47-53: fetch_option_data(inst) is called
Fetch ==
    /\ fpc = "idle"
    /\ inst' \in Instruments
    /\ retries' = Retries
    /\ fpc' = "loop"
    /\ UNCHANGED <<callVars, queryVars, scheduleVars, requests, response, slept,
                   fetched>>

\* lines 54-59: requests.get raises; None is returned
RequestRaises ==
    /\ fpc = "loop"
    /\ retries > 0
    /\ requests < MaxRequests
    /\ requests' = requests + 1
    /\ response' = "exception"
    /\ fetched' = None
    /\ fpc' = "returned"
    /\ UNCHANGED <<callVars, queryVars, scheduleVars, inst, retries, slept>>

\* lines 54-65: the server answers with error 10028; the call sleeps for the
\* retry-after time and has one retry less
RateLimited ==
    /\ fpc = "loop"
    /\ retries > 0
    /\ requests < MaxRequests
    /\ requests' = requests + 1
    /\ response' = "error_10028"
    /\ \E header \in RetryAfterHeaders : slept' = slept + WaitTime(header)
    /\ retries' = retries - 1
    /\ UNCHANGED <<callVars, queryVars, scheduleVars, inst, fetched, fpc>>

\* lines 54-67: the body carries 'result', which is returned
ResultReturned ==
    /\ fpc = "loop"
    /\ retries > 0
    /\ requests < MaxRequests
    /\ requests' = requests + 1
    /\ response' = "result"
    /\ fetched' = OrderBook(inst)
    /\ fpc' = "returned"
    /\ UNCHANGED <<callVars, queryVars, scheduleVars, inst, retries, slept>>

\* lines 54-66: the body carries another error, or neither 'error' nor
\* 'result': neither branch is taken and the loop goes round
OtherResponse ==
    /\ fpc = "loop"
    /\ retries > 0
    /\ requests < MaxRequests
    /\ requests' = requests + 1
    /\ response' \in {"error_other", "neither"}
    /\ UNCHANGED <<callVars, queryVars, scheduleVars, inst, retries, slept,
                   fetched, fpc>>

\* lines 54 and 69-71: no retry is left; None is returned
GiveUp ==
    /\ fpc = "loop"
    /\ retries = 0
    /\ fetched' = None
    /\ fpc' = "returned"
    /\ UNCHANGED <<callVars, queryVars, scheduleVars, inst, retries, requests,
                   response, slept>>

\* One call of fetch_option_data, the server answering as it pleases
InitFetch ==
    /\ NoCall
    /\ NoQuery({EmptyStore}, 0)
    /\ NoSchedule
    /\ NoFetch

NextFetch ==
    \/ Fetch
    \/ RequestRaises
    \/ RateLimited
    \/ ResultReturned
    \/ OtherResponse
    \/ GiveUp

SpecFetch == InitFetch /\ [][NextFetch]_vars

\* ================================================================ claims
\* ------------------------------------------------------------- resolver
\* The resolver has just appended the bracket of day current_day - 1; its
\* locals still hold that day's calendar and walk.
Emitted == pc = "day_loop" /\ Len(result) > 0
LastBracket == result[Len(result)]
TargetOf(b) == add_tenor(b[1], tenor)
IsStrictlyAscending(s) == \A i \in 1..(Len(s) - 1) : s[i] < s[i + 1]
\* the adjacent pair at positions i, i+1 (1-based) brackets the target
IsBracketing(cal, i, target) == cal[i] < target /\ target <= cal[i + 1]

\* C1 as stated: every returned bracket satisfies expiry1 < target <= expiry2
\* and is the first adjacent pair of the day's calendar that does.
C1_Original ==
    Emitted =>
        LET b == LastBracket
            t == TargetOf(LastBracket)
            cal == day_expiries
        IN  /\ b[2] < t
            /\ t <= b[3]
            /\ \E i \in 1..(Len(cal) - 1) :
                /\ b[2] = cal[i]
                /\ b[3] = cal[i + 1]
                /\ IsBracketing(cal, i, t)
                /\ \A j \in 1..(i - 1) : ~IsBracketing(cal, j, t)

\* C1 (amended): every returned bracket (d, expiry1, expiry2) has
\* target_date(d, tenor) <= expiry2 and is the first adjacent pair of the day's
\* calendar whose second entry is not before the target.  When the calendar's
\* first entry is before the target it satisfies expiry1 < target <= expiry2
\* and is the first adjacent pair that does; otherwise it is the calendar's
\* first two entries, and expiry1 >= target.
C1_Bracket ==
    Emitted =>
        LET b == LastBracket
            t == TargetOf(LastBracket)
            cal == day_expiries
        IN  /\ b = <<current_day - 1, cal[idx], cal[idx + 1]>>
            /\ t <= b[3]
            /\ \A j \in 1..(idx - 1) : cal[j + 1] < t
            /\ cal[1] < t =>
                /\ b[2] < t
                /\ IsBracketing(cal, idx, t)
                /\ \A j \in 1..(idx - 1) : ~IsBracketing(cal, j, t)
            /\ cal[1] >= t =>
                /\ idx = 1
                /\ b[2] >= t

\* C1 witness: a bracket reached by walking, with expiry1 < target <= expiry2
C1_Witness ==
    /\ Emitted
    /\ steps >= 1
    /\ LastBracket[2] < TargetOf(LastBracket)
    /\ TargetOf(LastBracket) <= LastBracket[3]

\* The day's calendar is strictly ascending, has two entries and reaches the
\* target.
Covering ==
    /\ Len(day_expiries) >= 2
    /\ IsStrictlyAscending(day_expiries)
    /\ \E k \in 1..Len(day_expiries) : day_expiries[k] >= current_tenor

\* C2: on a strictly ascending calendar of at least two entries that reaches
\* the target the walk does not fail, and at each of its steps and in the
\* bracket it emits expiry1 < expiry2 are neighbours in the calendar, no
\* entry lying strictly between them.
C2_Adjacent ==
    Covering =>
        /\ pc \in {"walk", "day_loop"}
        /\ expiry1 < expiry2
        /\ expiry1 = day_expiries[idx]
        /\ expiry2 = day_expiries[idx + 1]
        /\ \A k \in 1..Len(day_expiries) :
            ~(expiry1 < day_expiries[k] /\ day_expiries[k] < expiry2)
        /\ pc = "day_loop" => LastBracket = <<current_day - 1, expiry1, expiry2>>

\* C2 witness: the walk has moved on such a calendar
C2_Witness == Covering /\ pc = "walk" /\ steps >= 1

DaysInOrder(table, first) == \A i \in 1..Len(table) : table[i][1] = first + i - 1

\* C3: while the resolver runs it has emitted one bracket for each day before
\* current_day, in date order; the table it returns has one row for each day
\* from date(range_start) to date(range_end), in date order; and the day loop
\* ends (returning, or raising when a day's walk fails).
C3_OnePerDay ==
    /\ [](pc \in {"day_loop", "walk"} =>
            /\ DaysInOrder(result, DateOf(range_start))
            /\ Len(result) = current_day - DateOf(range_start))
    /\ [](pc = "query" =>
            /\ DaysInOrder(nearby_expiries, DateOf(range_start))
            /\ Len(nearby_expiries) = DateOf(range_end) - DateOf(range_start) + 1)
    /\ <>(pc \in {"query", "raised"})

\* C3 witness: a table of several days was returned
C3_Witness == pc = "query" /\ Len(nearby_expiries) >= 2

\* The day's calendar cannot bracket the target.
Exhausted ==
    /\ day_expiries # <<>>
    /\ \/ Len(day_expiries) < 2
       \/ \A k \in 1..Len(day_expiries) : day_expiries[k] < current_tenor

\* C4 as stated: on an exhausted calendar the resolution ends in the
\* CalendarExhausted error and no bracket table is returned.
C4_Original ==
    Exhausted =>
        /\ pc \in {"walk", "raised"}
        /\ pc = "raised" => (err = "CalendarExhausted" /\ nearby_expiries = <<>>)

\* -------------------------------------------------------- interpolation
\* A row of tenor_vols has been computed (lines 282-293).
RowDone == row.divided
RowTarget == row.rolling_expiry
RowExpiry1 == Midnight(row.expiry1)
RowExpiry2 == Midnight(row.expiry2)
RowWeight1 == Weight(row.diff_to_exp1, row.diff_exp)
RowWeight2 == Weight(row.diff_to_exp2, row.diff_exp)
WeightsSumToOne == RatEq(RatAdd(RowWeight1, RowWeight2), Rat(1))
IsUnitWeight(w) == RatLe(Rat(0), w) /\ RatLe(w, Rat(1))
\* value(expiry1) + (target - expiry1) / (expiry2 - expiry1)
\*                  * (value(expiry2) - value(expiry1))
Linear(target) ==
    Frac(row.vol1 * (RowExpiry2 - RowExpiry1)
            + (target - RowExpiry1) * (row.vol2 - row.vol1),
         RowExpiry2 - RowExpiry1)
IsBetween(x, a, b) ==
    \/ RatLe(Rat(a), x) /\ RatLe(x, Rat(b))
    \/ RatLe(Rat(b), x) /\ RatLe(x, Rat(a))
IsStrictlyBetween(x, a, b) ==
    \/ RatLt(Rat(a), x) /\ RatLt(x, Rat(b))
    \/ RatLt(Rat(b), x) /\ RatLt(x, Rat(a))

\* C5 as stated: when the target lies strictly between the two expiries the
\* weights sum to 1 and the value is the linear interpolation in days, the
\* distance target - expiry1 taken either exactly or between calendar dates.
C5_Original ==
    (RowDone /\ RowExpiry1 < RowTarget /\ RowTarget < RowExpiry2) =>
        /\ WeightsSumToOne
        /\ \/ RatEq(row.value, Linear(RowTarget))
           \/ RatEq(row.value, Linear(Midnight(DateOf(RowTarget))))

\* C6: with expiry1 # expiry2, a target equal to expiry1 gives weights 1 and 0
\* and the value of expiry1 exactly; a target equal to expiry2 gives weights
\* 0 and 1 and the value of expiry2 exactly.
C6_Boundary ==
    (RowDone /\ row.expiry1 # row.expiry2) =>
        /\ RowTarget = RowExpiry1 =>
            /\ RatEq(row.value, Rat(row.vol1))
            /\ RatEq(RowWeight1, Rat(1))
            /\ RatEq(RowWeight2, Rat(0))
        /\ RowTarget = RowExpiry2 =>
            /\ RatEq(row.value, Rat(row.vol2))
            /\ RatEq(RowWeight1, Rat(0))
            /\ RatEq(RowWeight2, Rat(1))

\* C6 witness: a row whose target is its first expiry, the two values differing
C6_Witness ==
    /\ RowDone
    /\ row.expiry1 # row.expiry2
    /\ RowTarget = RowExpiry1
    /\ row.vol1 # row.vol2

\* The target is before the first expiry of the row's bracket.
Extrapolating == RowDone /\ RowTarget < RowExpiry1

\* C7 as stated: in the extrapolation case the result is numeric and the two
\* weights do not sum to 1.
C7_Original == Extrapolating => (~IsNaN(row.value) /\ ~WeightsSumToOne)

\* C7 (amended): when the target precedes the first calendar expiry the
\* resolver returns the first two calendar entries, and for expiry1 # expiry2
\* the interpolation gives a numeric result whose two weights each lie in
\* [0, 1] and sum to 1: a weighted average of the two values.
C7_Extrapolation ==
    /\ (Emitted /\ TargetOf(LastBracket) < day_expiries[1]) =>
            (LastBracket[2] = day_expiries[1] /\ LastBracket[3] = day_expiries[2])
    /\ (Extrapolating /\ row.expiry1 # row.expiry2) =>
            /\ ~IsNaN(row.value)
            /\ WeightsSumToOne
            /\ IsUnitWeight(RowWeight1)
            /\ IsUnitWeight(RowWeight2)
            /\ IsBetween(row.value, row.vol1, row.vol2)

\* C7 witness: an extrapolating row at a distance from both expiries
C7_Witness ==
    /\ Extrapolating
    /\ row.expiry1 # row.expiry2
    /\ row.diff_to_exp1 > 0
    /\ row.vol1 # row.vol2

\* C8 as stated: when diff_exp is 0 the call ends in the DegenerateBracket
\* error without dividing.
C8_Original ==
    (RowDone /\ row.diff_exp = 0) => (pc = "raised" /\ err = "DegenerateBracket")

\* ------------------------------------------------------------ end to end
\* the day's calendar lists exactly the two expiries of the scenario
E2ECalendar ==
    {day_expiries[k] : k \in 1..Len(day_expiries)} = {E2EExpiry1, E2EExpiry2}
E2EResolved ==
    (Emitted /\ LastBracket[1] = E2EAnchor /\ E2ECalendar) =>
        LastBracket = <<E2EAnchor, E2EExpiry1, E2EExpiry2>>
\* a row of the anchor day on the scenario's bracket, the raw values differing
E2ERow ==
    /\ RowDone
    /\ DateOf(row.timestamp) = E2EAnchor
    /\ row.expiry1 = E2EExpiry1
    /\ row.expiry2 = E2EExpiry2
    /\ row.vol1 # row.vol2

\* C9 as stated: the scenario resolves to (2024-01-26, 2024-02-23) and the
\* interpolated value is strictly between the two raw values.
C9_Original ==
    /\ E2EResolved
    /\ E2ERow => IsStrictlyBetween(row.value, row.vol1, row.vol2)

\* C9 (amended): the scenario resolves to (2024-01-26, 2024-02-23); the target
\* 2024-02-23 is expiry2 itself, so the interpolated value lies between the
\* two raw values, ends included, weighted by day-count distance, and at
\* 2024-01-24T00:00:00 it is the raw value of 2024-02-23 exactly.
C9_EndToEnd ==
    /\ E2EResolved
    /\ E2ERow =>
        /\ IsBetween(row.value, row.vol1, row.vol2)
        /\ WeightsSumToOne
        /\ RatEq(row.value, RatAdd(RatScale(row.vol1, RowWeight1),
                                   RatScale(row.vol2, RowWeight2)))
        /\ row.timestamp = Midnight(E2EAnchor) =>
            /\ row.diff_to_exp1 = E2EExpiry2 - E2EExpiry1
            /\ row.diff_to_exp2 = 0
            /\ RatEq(row.value, Rat(row.vol2))

\* C9 witness: the scenario's row at midnight of the anchor day
C9_Witness == E2ERow /\ row.timestamp = Midnight(E2EAnchor)

\* ------------------------------------------------------- derived metrics
\* the value of the tenor series of a label at a timestamp
ValueAt(history, label, ts) ==
    LET rows == {i \in 1..Len(history) :
                    history[i].delta = label /\ history[i].timestamp = ts}
    IN  IF rows = {} THEN NaN ELSE history[CHOOSE i \in rows : TRUE].value

\* the input with the call and put series exchanged
SwapCallPut(history) ==
    [i \in DOMAIN history |->
        [history[i] EXCEPT !.delta =
            IF @ = CallLabel(Delta) THEN PutLabel(Delta)
            ELSE IF @ = PutLabel(Delta) THEN CallLabel(Delta)
            ELSE @]]

\* C10: at every timestamp the risk reversal is tenor_series(d+"C") -
\* tenor_series(d+"P"), divided by tenor_series(ATM) when normalize_by_ATM is
\* set, and exchanging the call and put series negates it.
C10_RiskReversal ==
    (pc = "done" /\ call = "rr") =>
        /\ DOMAIN metric = obs
        /\ \A ts \in obs :
            LET c == ValueAt(final_vols, CallLabel(Delta), ts)
                p == ValueAt(final_vols, PutLabel(Delta), ts)
                a == ValueAt(final_vols, ATM, ts)
                expected == IF normalize THEN RatDiv(RatSub(c, p), a)
                            ELSE RatSub(c, p)
                swapped == RiskReversalOf(SwapCallPut(final_vols), Delta, normalize)
            IN  ~IsNaN(expected) =>
                    /\ RatEq(metric[ts], expected)
                    /\ RatEq(swapped[ts], RatNeg(metric[ts]))

\* C10 witness: a normalized risk reversal with a non-zero value
C10_Witness ==
    /\ pc = "done"
    /\ call = "rr"
    /\ normalize
    /\ \E ts \in obs : ~IsNaN(metric[ts]) /\ metric[ts][1] # 0

\* C11: at every timestamp the butterfly is tenor_series(d+"C") +
\* tenor_series(d+"P") - 2 * tenor_series(ATM), and where the call, put and
\* ATM tenor series hold the same value it is 0.
C11_Butterfly ==
    (pc = "done" /\ call = "bf") =>
        /\ DOMAIN metric = obs
        /\ \A ts \in obs :
            LET c == ValueAt(final_vols, CallLabel(Delta), ts)
                p == ValueAt(final_vols, PutLabel(Delta), ts)
                a == ValueAt(final_vols, ATM, ts)
                expected == RatSub(RatAdd(c, p), RatScale(2, a))
            IN  ~IsNaN(expected) =>
                    /\ RatEq(metric[ts], expected)
                    /\ (RatEq(c, p) /\ RatEq(p, a)) => RatEq(metric[ts], Rat(0))

\* C11 witness: a butterfly over call, put and ATM series of one same value
C11_Witness ==
    /\ pc = "done"
    /\ call = "bf"
    /\ \E ts \in obs :
        LET c == ValueAt(final_vols, CallLabel(Delta), ts)
            p == ValueAt(final_vols, PutLabel(Delta), ts)
            a == ValueAt(final_vols, ATM, ts)
        IN  RatEq(c, p) /\ RatEq(p, a) /\ ~IsNaN(metric[ts])

\* ----------------------------------------------------------- query layer
\* the caller is inside the with block of its call
InWith(c) == qpc[c] \in {"in_with", "pivot", "leaving"}
\* the caller's call has returned or raised
Finished(c) == qpc[c] = "idle" /\ outcome[c] # "none"

\* C12: the connections held are exactly those of the calls inside their with
\* block, one per call and a new one for each call; a call issues the store
\* query once; once it has returned or raised its connection is released, and
\* a store error is the exception its caller gets.
C12_ScopedConnection ==
    /\ held = {client[c] : c \in {k \in Callers : InWith(k)}}
    /\ clients = (MaxCalls - budget)
                    - Cardinality({c \in Callers : qpc[c] = "called"})
    /\ UNION {Range(served[c]) : c \in Callers} = 1..clients
    /\ \A c, k \in Callers :
        \A i \in DOMAIN served[c], j \in DOMAIN served[k] :
            (c # k \/ i # j) => served[c][i] # served[k][j]
    /\ \A c \in Callers :
        /\ issued[c] <= 1
        /\ (InWith(c) \/ Finished(c)) => client[c] = served[c][Len(served[c])]
        /\ (qpc[c] \in {"pivot", "leaving"} \/ Finished(c)) => issued[c] = 1
        /\ Finished(c) =>
            /\ client[c] \notin held
            /\ store_err[c] # "none" => outcome[c] = store_err[c]
            /\ (store_err[c] = "none"
                    /\ qop[c] # "get_vol_surface_for_obs_time") =>
                outcome[c] = "returned"

\* C12 witness: a call has ended in a store error while another caller is
\* inside the with block of its call
C12_Witness ==
    \E c, k \in Callers :
        /\ Finished(c)
        /\ outcome[c] \in StoreErrors
        /\ InWith(k)

\* ---------------------------------------------------------- vol surface
\* the raw points have every one of the 19 delta buckets
Covered(points) ==
    \A d \in Range(SurfaceDeltas) : \E pt \in DOMAIN points : pt[2] = d /\ points[pt] > 0
ExpiriesOf(points) == {pt[1] : pt \in {q \in DOMAIN points : points[q] > 0}}
\* a call of the vol surface whose query the store has answered is over
SurfaceDone(c) ==
    /\ Finished(c)
    /\ qop[c] = "get_vol_surface_for_obs_time"
    /\ store_err[c] = "none"

\* C13: when the raw points cover the 19 delta buckets with no (expiry, delta)
\* pair twice, the call returns a table with one row per expiry (ascending),
\* the 19 columns 5P, 10P, ..., 45P, ATM, 45C, ..., 5C in that order, and a
\* value in the cells the points have; when a bucket is absent or a pair is
\* there twice, the call raises and returns no table.
C13_VolSurface ==
    \A c \in Callers :
        SurfaceDone(c) =>
            IF Covered(store) /\ ~HasDuplicate(store)
            THEN /\ outcome[c] = "returned"
                 /\ vol_surface[c].columns = SurfaceDeltas
                 /\ Len(vol_surface[c].columns) = 19
                 /\ vol_surface[c].index = AscendingSeq(ExpiriesOf(store))
                 /\ Len(vol_surface[c].index) = Cardinality(ExpiriesOf(store))
                 /\ vol_surface[c].cells = {pt \in DOMAIN store : store[pt] = 1}
            ELSE /\ outcome[c] \in {"ValueError", "KeyError"}
                 /\ vol_surface[c] = NoTable

\* C13 witness: a table of several expiries was returned, one of them lacking
\* a bucket
C13_Witness ==
    \E c \in Callers :
        /\ SurfaceDone(c)
        /\ outcome[c] = "returned"
        /\ Len(vol_surface[c].index) = MaxExpiries
        /\ \E pt \in SurfacePoints : pt \notin vol_surface[c].cells

\* ------------------------------------------------------ forward-fill join
\* the rows of the bracket table resolved for the calendar day of ts
BracketsOfDay(ts) ==
    {i \in 1..Len(nearby_expiries) : nearby_expiries[i][1] = DateOf(ts)}
\* the bracket table has been returned and its expiries asked of the store
Joined == pc \in {"delta_loop", "rows", "history", "done"}

\* C14: once the expiries are queried, every timestamp of the window
\* [range_start, range_end) has exactly one bracket resolved for its calendar
\* day, the latest day not after it; the row computed for an observation
\* timestamp uses that bracket, and both of its expiries are among the
\* expiries asked of the store.
C14_ForwardFill ==
    /\ Joined =>
        /\ obs \subseteq range_start..(range_end - 1)
        /\ \A ts \in range_start..(range_end - 1) :
            /\ Cardinality(BracketsOfDay(ts)) = 1
            /\ \A i \in 1..Len(nearby_expiries) :
                Midnight(nearby_expiries[i][1]) <= ts =>
                    nearby_expiries[i][1] <= DateOf(ts)
    /\ (Joined /\ RowDone) =>
        /\ row.timestamp \in obs
        /\ \E i \in BracketsOfDay(row.timestamp) :
            /\ row.expiry1 = nearby_expiries[i][2]
            /\ row.expiry2 = nearby_expiries[i][3]
        /\ row.expiry1 \in unique_expiries
        /\ row.expiry2 \in unique_expiries

\* C14 witness: in a window that starts within a day, a row of the day after,
\* whose bracket is not the first day's
C14_Witness ==
    /\ Joined
    /\ RowDone
    /\ range_start # Midnight(DateOf(range_start))
    /\ DateOf(row.timestamp) > DateOf(range_start)
    /\ <<row.expiry1, row.expiry2>> # <<nearby_expiries[1][2], nearby_expiries[1][3]>>

\* ---------------------------------------------------------------- loader
\* the period of the timeframe, in seconds
PeriodSeconds == timeframe_minutes[timeframe] * 60

\* the time of day at t seconds after the clock's time is a multiple of the
\* period, with 00 seconds
OnBoundary(t) ==
    ((SecondsOfDay(tm_hour, tm_min, tm_sec) + t) % DaySeconds) % PeriodSeconds = 0

\* no time from the clock's time up to t seconds later, t excluded, is such
\* a multiple (the period divides the day, so the multiples of the period in
\* seconds since today's midnight are those times, across midnight too)
NoBoundaryBefore(t) ==
    LET now == SecondsOfDay(tm_hour, tm_min, tm_sec)
    IN  \A k \in (now \div PeriodSeconds)..((now + t) \div PeriodSeconds) :
            ~(now <= k * PeriodSeconds /\ k * PeriodSeconds < now + t)

\* C15 as stated: the value r returned has 0 <= r < period * 60, the time of
\* day at now + r is a multiple of the period with 00 seconds, and no smaller
\* r has it.
C15_Original ==
    lpc = "sleep" =>
        /\ 0 <= next_run
        /\ next_run < PeriodSeconds
        /\ OnBoundary(next_run)
        /\ NoBoundaryBefore(next_run)

\* C16 as stated: fetch_option_data makes at most 5 HTTP requests, each
\* request that does not end the call takes one retry off its budget, and
\* it returns the order book when the last response carries 'result' and
\* None otherwise.
C16_Original ==
    /\ requests <= Retries
    /\ fpc = "loop" => retries = Retries - requests
    /\ fpc = "returned" =>
        IF response = "result" THEN fetched = OrderBook(inst)
        ELSE fetched = None
====
